---------------------------- MODULE Spec2Model ----------------------------
(***************************************************************************)
(* Model of the photo quality-scoring pipeline of cropfresh-service-ai:    *)
(*   MockQualityModel        (statistics extraction, scoring)              *)
(*   PhotoValidationService  (validatePhoto, getSuggestion)                *)
(*   photoValidationGrpcHandlers (ValidatePhotoQuality,                    *)
(*                                GetLocalizedSuggestion)                  *)
(*                                                                         *)
(* JavaScript numbers are IEEE-754 doubles.  The scoring arithmetic is     *)
(* modelled with correctly rounded double operations (round to nearest,    *)
(* ties to even, 53 significant bits) over exact binary fixed-point        *)
(* magnitudes, so that a score such as 1 - 0.25*0.6 - 0.4 takes the value  *)
(* the program computes (0.44999999999999996) and not the real 0.45.       *)
(***************************************************************************)
EXTENDS Integers, Sequences, FiniteSets, TLC

(***************************************************************************)
(* Natural numbers of arbitrary size: little-endian sequences of limbs in  *)
(* 0 .. LimbBase-1 without leading (last) zero limbs; zero is << >>.       *)
(***************************************************************************)
LimbBits == 15

LimbBase == 2^LimbBits

\* limb i of a; the limbs beyond the last one are 0
Limb(a, i) == IF 1 <= i /\ i <= Len(a) THEN a[i] ELSE 0

RECURSIVE BNorm(_)
BNorm(a) ==
    IF a = << >> THEN << >>
    ELSE IF a[Len(a)] = 0 THEN BNorm(SubSeq(a, 1, Len(a) - 1))
    ELSE a

RECURSIVE BFromNat(_)
BFromNat(n) ==
    IF n = 0 THEN << >> ELSE <<n % LimbBase>> \o BFromNat(n \div LimbBase)

\* limb i of a + b takes a carry: a lower pair of limbs overflows and every
\* pair in between sums to LimbBase - 1
BAddC(a, b, i) ==
    \E j \in 1..(i - 1) :
        /\ Limb(a, j) + Limb(b, j) >= LimbBase
        /\ \A k \in (j + 1)..(i - 1) : Limb(a, k) + Limb(b, k) = LimbBase - 1

BAdd(a, b) ==
    IF a = << >> THEN BNorm(b)
    ELSE IF b = << >> THEN BNorm(a)
    ELSE BNorm([i \in 1..((IF Len(a) > Len(b) THEN Len(a) ELSE Len(b)) + 1) |->
                   (Limb(a, i) + Limb(b, i) + (IF BAddC(a, b, i) THEN 1 ELSE 0))
                       % LimbBase])

\* limb i of a - b gives a borrow: a lower limb of a is below that of b and
\* the limbs in between are equal
BSubB(a, b, i) ==
    \E j \in 1..(i - 1) :
        /\ Limb(a, j) < Limb(b, j)
        /\ \A k \in (j + 1)..(i - 1) : Limb(a, k) = Limb(b, k)

\* a - b for a >= b
BSub(a, b) ==
    IF b = << >> THEN BNorm(a)
    ELSE BNorm([i \in 1..Len(a) |->
                   (LimbBase + Limb(a, i) - Limb(b, i)
                       - (IF BSubB(a, b, i) THEN 1 ELSE 0)) % LimbBase])

\* the highest limb in which a and b of one length differ, 0 if none
BCmpFrom(a, b) ==
    LET differ == {i \in 1..Len(a) : a[i] # b[i]}
    IN  IF differ = {} THEN 0
        ELSE CHOOSE i \in differ : \A j \in differ : j <= i

\* -1, 0, 1 as a < b, a = b, a > b (both normalised)
BCmp(a, b) ==
    IF Len(a) < Len(b) THEN -1
    ELSE IF Len(a) > Len(b) THEN 1
    ELSE IF BCmpFrom(a, b) = 0 THEN 0
    ELSE IF a[BCmpFrom(a, b)] < b[BCmpFrom(a, b)] THEN -1
    ELSE 1

\* a * LimbBase^n
BShl(a, n) == IF a = << >> THEN << >> ELSE [i \in 1..n |-> 0] \o a

\* floor(a / LimbBase^n)
BShr(a, n) == IF Len(a) <= n THEN << >> ELSE SubSeq(a, n + 1, Len(a))

\* a * k for 0 <= k < LimbBase: the low limbs of the limb products plus
\* their high limbs one place up
BMulSmall(a, k) ==
    BAdd([i \in 1..Len(a) |-> (a[i] * k) % LimbBase],
         BShl([i \in 1..Len(a) |-> (a[i] * k) \div LimbBase], 1))

\* the sum over i in 1..n of the low limb (the high limb if high) of
\* a[i] * b[k + 1 - i]
RECURSIVE BMulCol(_, _, _, _, _)
BMulCol(a, b, k, n, high) ==
    IF n = 0 THEN 0
    ELSE (IF high THEN (Limb(a, n) * Limb(b, k + 1 - n)) \div LimbBase
          ELSE (Limb(a, n) * Limb(b, k + 1 - n)) % LimbBase)
         + BMulCol(a, b, k, n - 1, high)

\* a * b by columns: column k collects the low limbs of the products
\* a[i] * b[j], i + j = k + 1, and the high limbs of the column below
BMul(a, b) ==
    LET col == [k \in 1..(Len(a) + Len(b)) |->
                   BMulCol(a, b, k, Len(a), FALSE)
                       + BMulCol(a, b, k - 1, Len(a), TRUE)]
    IN  BAdd([k \in DOMAIN col |-> col[k] % LimbBase],
             BShl([k \in DOMAIN col |-> col[k] \div LimbBase], 1))

\* long division of a by d, 0 < d < LimbBase, from the most significant
\* limb down: acc holds the quotient limbs of the limbs above i and their
\* remainder; a limb whose dividend is below d gives the quotient limb 0
RECURSIVE BDivSmallFrom(_, _, _, _)
BDivSmallFrom(a, d, i, acc) ==
    CASE i = 0 -> [q |-> BNorm(acc.q), r |-> acc.r]
      [] i > 0 /\ acc.r * LimbBase + a[i] < d ->
            BDivSmallFrom(a, d, i - 1,
                          [q |-> <<0>> \o acc.q, r |-> acc.r * LimbBase + a[i]])
      [] OTHER ->
            BDivSmallFrom(a, d, i - 1,
                          [q |-> <<(acc.r * LimbBase + a[i]) \div d>> \o acc.q,
                           r |-> (acc.r * LimbBase + a[i]) % d])

\* [q, r] with a = q*d + r, 0 <= r < d
BDivSmall(a, d) == BDivSmallFrom(a, d, Len(a), [q |-> << >>, r |-> 0])

\* bit n of a, the lowest being bit 0
BBit(a, n) == (Limb(a, n \div LimbBits + 1) \div (2^(n % LimbBits))) % 2

\* a with its n lowest bits cleared
BClearLow(a, n) ==
    [i \in 1..Len(a) |->
        IF i <= n \div LimbBits THEN 0
        ELSE IF i = n \div LimbBits + 1
        THEN (a[i] \div (2^(n % LimbBits))) * (2^(n % LimbBits))
        ELSE a[i]]

\* the number of bits of a limb n
NatBitLen(n) ==
    IF n = 0 THEN 0 ELSE CHOOSE k \in 1..LimbBits : 2^(k - 1) <= n /\ n < 2^k

BBitLen(a) ==
    IF a = << >> THEN 0 ELSE (Len(a) - 1) * LimbBits + NatBitLen(a[Len(a)])

\* 2^n as a limb sequence
BPow2(n) == BShl(<<2^(n % LimbBits)>>, n \div LimbBits)

(***************************************************************************)
(* IEEE-754 doubles.  A double is [neg, mag]: the value (-1)^neg * mag *   *)
(* 2^-FracBits.  Every double of magnitude in [2^-22, 2^53) is such a      *)
(* value (its last mantissa bit weighs at least 2^-FracBits), which covers *)
(* every number the scorer computes from the statistics of this model.     *)
(***************************************************************************)
FracLimbs == 5

FracBits == FracLimbs * LimbBits

MantissaBits == 53

\* m rounded to MantissaBits significant bits, ties to even; sticky says
\* that the exact value lies strictly above m (bits below m's unit).  Of
\* the drop bits that go, the highest is the guard bit: m is rounded up
\* when the guard bit is set and so is sticky, the last kept bit or a
\* lower bit
Round53(m, sticky) ==
    LET len  == BBitLen(m)
        drop == len - MantissaBits
    IN  IF len <= MantissaBits THEN m
        ELSE IF /\ BBit(m, drop - 1) = 1
                /\ \/ sticky
                   \/ BBit(m, drop) = 1
                   \/ \E n \in 0..(drop - 2) : BBit(m, n) = 1
        THEN BAdd(BClearLow(m, drop), BPow2(drop))
        ELSE BClearLow(m, drop)

FZero == [neg |-> FALSE, mag |-> << >>]

FMake(neg, mag) == IF mag = << >> THEN FZero ELSE [neg |-> neg, mag |-> mag]

\* the double nearest to (-1)^neg * m * LimbBase^-limbs * 2^-FracBits
FRound(neg, m, sticky, limbs) ==
    IF m = << >> THEN FZero
    ELSE FMake(neg, BShr(Round53(m, sticky), limbs))

\* an integer n, |n| < 2^31, as a double (exact)
FromInt(n) ==
    FMake(n < 0, BShl(BFromNat(IF n < 0 THEN -n ELSE n), FracLimbs))

FNeg(x) == FMake(~x.neg, x.mag)

\* x + y, correctly rounded
FAdd(x, y) ==
    IF x.neg = y.neg THEN FRound(x.neg, BAdd(x.mag, y.mag), FALSE, 0)
    ELSE IF BCmp(x.mag, y.mag) >= 0
    THEN FRound(x.neg, BSub(x.mag, y.mag), FALSE, 0)
    ELSE FRound(y.neg, BSub(y.mag, x.mag), FALSE, 0)

\* x - y, correctly rounded
FSub(x, y) == FAdd(x, FNeg(y))

\* x * y, correctly rounded
FMul(x, y) ==
    IF x.mag = << >> \/ y.mag = << >> THEN FZero
    ELSE FRound(x.neg # y.neg, BMul(x.mag, y.mag), FALSE, FracLimbs)

\* limbs of zeros under the dividend: with a dividend of at least 2^53 the
\* quotient by d < LimbBase keeps more than MantissaBits + 1 bits
DivGuardLimbs == 2

\* x / d for an integer 0 < d < LimbBase, correctly rounded
FDivNat(x, d) ==
    LET res == BDivSmall(BShl(x.mag, DivGuardLimbs), d)
    IN  IF x.mag = << >> THEN FZero
        ELSE FRound(x.neg, res.q, res.r # 0, DivGuardLimbs)

\* the double nearest to the decimal literal n/d (0.85 is Dec(85, 100))
Dec(n, d) == FDivNat(FromInt(n), d)

FLt(x, y) ==
    IF x.neg /\ ~y.neg THEN TRUE
    ELSE IF ~x.neg /\ y.neg THEN FALSE
    ELSE IF x.neg THEN BCmp(x.mag, y.mag) > 0
    ELSE BCmp(x.mag, y.mag) < 0

FGt(x, y) == FLt(y, x)

FGe(x, y) == ~FLt(x, y)

FLe(x, y) == ~FLt(y, x)

\* Math.max, Math.min
FMax(x, y) == IF FLt(x, y) THEN y ELSE x

FMin(x, y) == IF FLt(y, x) THEN y ELSE x

\* the decimal literals of the program, each the double nearest to it
Lit0_1 == Dec(1, 10)

Lit0_2 == Dec(2, 10)

Lit0_25 == Dec(25, 100)

Lit0_3 == Dec(3, 10)

Lit0_4 == Dec(4, 10)

Lit0_45 == Dec(45, 100)

Lit0_5 == Dec(5, 10)

Lit0_55 == Dec(55, 100)

Lit0_65 == Dec(65, 100)

Lit0_75 == Dec(75, 100)

Lit0_8 == Dec(8, 10)

Lit0_85 == Dec(85, 100)

Lit0_9 == Dec(9, 10)

Lit0_95 == Dec(95, 100)

Lit0_99 == Dec(99, 100)

(***************************************************************************)
(* MockQualityModel: thresholds                                            *)
(***************************************************************************)
MIN_WIDTH == 1024

MIN_HEIGHT == 768

MIN_BRIGHTNESS == 40

MAX_BRIGHTNESS == 220

MIN_SHARPNESS == 100

\* the brightest byte value, the 255 of (255 - MAX_BRIGHTNESS)
MAX_BYTE == 255

Grades == {"A", "B", "C", "REJECT"}

\* enum QualityIssueType
QualityIssueType ==
    {"TOO_DARK", "TOO_BRIGHT", "BLURRY", "NO_PRODUCE", "LOW_RESOLUTION",
     "POOR_FRAMING"}

\* a message: its template and the numbers interpolated into it
Message(text, args) == [text |-> text, args |-> args]

(***************************************************************************)
(* MockQualityModel.predict.  Each check takes the issues and the score so *)
(* far and returns them after its push and deduction.                      *)
(***************************************************************************)
\* an issue pushed and its deduction taken
Pushed(acc, issue, deduction) ==
    [issues |-> Append(acc.issues, issue), score |-> FSub(acc.score, deduction)]

Issue(type, severity, message, suggestion) ==
    [type |-> type, severity |-> severity, message |-> message,
     suggestion |-> suggestion]

CheckResolution(stats, acc) ==
    IF stats.width < MIN_WIDTH \/ stats.height < MIN_HEIGHT
    THEN Pushed(acc,
                Issue("LOW_RESOLUTION", Lit0_5,
                      Message("Resolution {}x{} below minimum {}x{}",
                              <<stats.width, stats.height, MIN_WIDTH, MIN_HEIGHT>>),
                      "Move closer to the produce or use higher camera resolution"),
                Lit0_2)
    ELSE acc

TooDark(acc, severity) ==
    Pushed(acc,
           Issue("TOO_DARK", severity,
                 Message("Photo is too dark for accurate quality assessment", << >>),
                 "Move to brighter lighting or use flash"),
           FMul(Lit0_25, severity))

TooBright(acc, severity) ==
    Pushed(acc,
           Issue("TOO_BRIGHT", severity,
                 Message("Photo is overexposed (too bright)", << >>),
                 "Move away from direct sunlight or reduce flash"),
           FMul(Lit0_25, severity))

\* a plausible slip: the difference left unnormalised
SeverityUnscaled(from, to, range) == FSub(from, to)

\* (value - threshold) / range, or (threshold - value) / range
Severity(from, to, range) == FDivNat(FSub(from, to), range)

CheckBrightness(stats, acc) ==
    IF FLt(stats.brightness, FromInt(MIN_BRIGHTNESS))
    THEN TooDark(acc, Severity(FromInt(MIN_BRIGHTNESS), stats.brightness,
                               MIN_BRIGHTNESS))
    ELSE IF FGt(stats.brightness, FromInt(MAX_BRIGHTNESS))
    THEN TooBright(acc, Severity(stats.brightness, FromInt(MAX_BRIGHTNESS),
                                 MAX_BYTE - MAX_BRIGHTNESS))
    ELSE acc

Blurry(acc, severity) ==
    Pushed(acc,
           Issue("BLURRY", severity,
                 Message("Photo is blurry, cannot assess quality accurately", << >>),
                 "Hold camera steady and ensure produce is in focus"),
           FMul(Lit0_3, severity))

\* a plausible slip: <= for <
CheckSharpnessInclusive(stats, acc) ==
    IF FLe(stats.sharpness, FromInt(MIN_SHARPNESS))
    THEN Blurry(acc, Severity(FromInt(MIN_SHARPNESS), stats.sharpness,
                              MIN_SHARPNESS))
    ELSE acc

CheckSharpness(stats, acc) ==
    IF FLt(stats.sharpness, FromInt(MIN_SHARPNESS))
    THEN Blurry(acc, Severity(FromInt(MIN_SHARPNESS), stats.sharpness,
                              MIN_SHARPNESS))
    ELSE acc

CheckProduce(stats, acc) ==
    IF ~stats.hasProduceColors
    THEN Pushed(acc,
                Issue("NO_PRODUCE", Lit0_8,
                      Message("Cannot detect produce in photo", << >>),
                      "Ensure produce fills most of the frame"),
                Lit0_4)
    ELSE acc

\* a plausible slip: the sharpness check moved before the brightness check
RunChecksSharpnessFirst(stats) ==
    CheckProduce(stats,
      CheckBrightness(stats,
        CheckSharpness(stats,
          CheckResolution(stats, [issues |-> << >>, score |-> FromInt(1)]))))

\* the issues and the unclamped score after the four checks, in code order
RunChecks(stats) ==
    CheckProduce(stats,
      CheckSharpness(stats,
        CheckBrightness(stats,
          CheckResolution(stats, [issues |-> << >>, score |-> FromInt(1)]))))

\* score = Math.max(0, Math.min(1, score))
ClampScore(score) == FMax(FromInt(0), FMin(FromInt(1), score))

scoreToGrade(score) ==
    IF FGe(score, Lit0_85) THEN "A"
    ELSE IF FGe(score, Lit0_65) THEN "B"
    ELSE IF FGe(score, Lit0_45) THEN "C"
    ELSE "REJECT"

\* the for loop of calculateConfidence
RECURSIVE ReduceForIssues(_, _)
ReduceForIssues(issues, confidence) ==
    IF issues = << >> THEN confidence
    ELSE ReduceForIssues(Tail(issues),
                         FSub(confidence, FMul(Lit0_1, Head(issues).severity)))

\* a plausible slip: the flat deduction tied to a brightness issue
BorderlineOnlyWithIssue(stats) ==
    FGt(stats.brightness, FromInt(MAX_BRIGHTNESS))
        \/ FLt(stats.brightness, FromInt(MIN_BRIGHTNESS))

Borderline(stats) ==
    FGt(stats.brightness, FromInt(180)) \/ FLt(stats.brightness, FromInt(60))

ReduceForBorderline(stats, confidence) ==
    IF Borderline(stats) THEN FSub(confidence, Lit0_1) ELSE confidence

\* a plausible slip: only the upper clamp
ClampConfidenceUpperOnly(confidence) == FMin(Lit0_99, confidence)

\* Math.max(0.3, Math.min(0.99, confidence))
ClampConfidence(confidence) == FMax(Lit0_3, FMin(Lit0_99, confidence))

calculateConfidence(stats, issues) ==
    ClampConfidence(ReduceForBorderline(stats, ReduceForIssues(issues, Lit0_9)))

PredictionOf(stats, checked) ==
    [grade      |-> scoreToGrade(ClampScore(checked.score)),
     confidence |-> calculateConfidence(stats, checked.issues),
     issues     |-> checked.issues]

predict(stats) == PredictionOf(stats, RunChecks(stats))

(***************************************************************************)
(* MockQualityModel.extractStats.  A Buffer is a sequence of runs          *)
(* [byte, count]: count consecutive bytes of value byte.                   *)
(***************************************************************************)
RECURSIVE BufferLength(_)
BufferLength(buffer) ==
    IF buffer = << >> THEN 0 ELSE Head(buffer).count + BufferLength(Tail(buffer))

Min(a, b) == IF a < b THEN a ELSE b

\* sum of buffer[i] over the first n bytes
RECURSIVE SumBytes(_, _)
SumBytes(buffer, n) ==
    IF n = 0 \/ buffer = << >> THEN 0
    ELSE LET k == Min(n, Head(buffer).count)
         IN  k * Head(buffer).byte + SumBytes(Tail(buffer), n - k)

\* sum of (buffer[i] - mean)^2 over the first n bytes, for an integer mean
RECURSIVE SumSquares(_, _, _)
SumSquares(buffer, n, mean) ==
    IF n = 0 \/ buffer = << >> THEN 0
    ELSE LET k == Min(n, Head(buffer).count)
             d == Head(buffer).byte - mean
         IN  k * d * d + SumSquares(Tail(buffer), n - k, mean)

\* Math.min(1000, buffer.length)
SampleSize(buffer) == Min(1000, BufferLength(buffer))

\* the integer square root of a perfect square
IntSqrt(v) == CHOOSE r \in 0..MAX_BYTE : r * r = v

\* The buffers whose mean and standard deviation over the sample are
\* integers: for these every step of the two loops is exact in doubles.
ExactlyAnalysed(buffer) ==
    \/ BufferLength(buffer) < 100
    \/ LET n    == SampleSize(buffer)
           sum  == SumBytes(buffer, n)
           sq   == SumSquares(buffer, n, sum \div n)
       IN  /\ sum % n = 0
           /\ sq % n = 0
           /\ \E r \in 0..MAX_BYTE : r * r = sq \div n

mockBrightness(buffer) ==
    IF BufferLength(buffer) < 100 THEN FromInt(128)
    ELSE FDivNat(FromInt(SumBytes(buffer, SampleSize(buffer))), SampleSize(buffer))

mockContrast(buffer) ==
    IF BufferLength(buffer) < 100 THEN FromInt(50)
    ELSE LET n    == SampleSize(buffer)
             mean == SumBytes(buffer, n) \div n
         IN  FromInt(IntSqrt(SumSquares(buffer, n, mean) \div n))

mockSharpness(buffer) ==
    IF BufferLength(buffer) < 100 THEN FromInt(150)
    ELSE FMul(mockContrast(buffer), FromInt(3))

\* a plausible slip: any non-empty buffer counts as produce
mockProduceDetectionNonEmpty(buffer) == BufferLength(buffer) > 0

mockProduceDetection(buffer) == BufferLength(buffer) > 10000

extractStats(imageBuffer, width, height) ==
    [width            |-> width,
     height           |-> height,
     brightness       |-> mockBrightness(imageBuffer),
     contrast         |-> mockContrast(imageBuffer),
     sharpness        |-> mockSharpness(imageBuffer),
     hasProduceColors |-> mockProduceDetection(imageBuffer)]

(***************************************************************************)
(* JavaScript values that are not always of one type: a value is a record  *)
(* with one field naming its type.                                         *)
(***************************************************************************)
Undefined == [undefined |-> TRUE]

Null == [null |-> TRUE]

Num(n) == [num |-> n]

Str(s) == [str |-> s]

\* a function object: its name and its declared parameter count
Fn(name, length) == [function |-> name, length |-> length]

\* a plain object that is not one of the tables (Object.prototype)
Obj(name) == [object |-> name]

IsUndefined(v) == "undefined" \in DOMAIN v

IsNull(v) == "null" \in DOMAIN v

IsNum(v) == "num" \in DOMAIN v

IsStr(v) == "str" \in DOMAIN v

IsFn(v) == "function" \in DOMAIN v

\* the completion of an expression that raised instead of giving a value
Threw(error) == [threw |-> error]

IsThrow(v) == "threw" \in DOMAIN v

\* ToBoolean
Truthy(v) ==
    IF IsUndefined(v) \/ IsNull(v) THEN FALSE
    ELSE IF IsNum(v) THEN v.num # 0
    ELSE IF IsStr(v) THEN v.str # ""
    ELSE TRUE

\* a || b
OrElse(a, b) == IF Truthy(a) THEN a ELSE b

\* the methods every object inherits from Object.prototype, with their
\* parameter counts
ObjectPrototypeMethods ==
    [constructor |-> 1, __defineGetter__ |-> 2, __defineSetter__ |-> 2,
     hasOwnProperty |-> 1, __lookupGetter__ |-> 1, __lookupSetter__ |-> 1,
     isPrototypeOf |-> 1, propertyIsEnumerable |-> 1, toString |-> 0,
     valueOf |-> 0, toLocaleString |-> 0]

ObjectPrototypeGet(key) ==
    IF key = "constructor" THEN Fn("Object", 1)
    ELSE IF key \in DOMAIN ObjectPrototypeMethods
    THEN Fn(key, ObjectPrototypeMethods[key])
    ELSE IF key = "__proto__" THEN Null
    ELSE Undefined

(***************************************************************************)
(* PhotoValidationService                                                  *)
(***************************************************************************)
\* an imageBuffer is Undefined or [buffer |-> runs]; a Buffer object is
\* truthy whatever its length
HasBuffer(request) == "buffer" \in DOMAIN request.imageBuffer

\* a plausible slip: the synthetic sharpness below the blur threshold
getImageStatsSoft(request) ==
    IF HasBuffer(request)
    THEN extractStats(request.imageBuffer.buffer, request.width, request.height)
    ELSE [width            |-> request.width,
          height           |-> request.height,
          brightness       |-> FromInt(140),
          contrast         |-> FromInt(50),
          sharpness        |-> FromInt(80),
          hasProduceColors |-> TRUE]

getImageStats(request) ==
    IF HasBuffer(request)
    THEN extractStats(request.imageBuffer.buffer, request.width, request.height)
    ELSE [width            |-> request.width,
          height           |-> request.height,
          brightness       |-> FromInt(140),
          contrast         |-> FromInt(50),
          sharpness        |-> FromInt(180),
          hasProduceColors |-> TRUE]

\* scores[grade] for a key that is no entry of a table written as an
\* object literal: what the table inherits from Object.prototype
InheritedEntry(key) ==
    IF key = "__proto__" THEN Obj("Object.prototype")
    ELSE ObjectPrototypeGet(key)

\* a plausible slip: the entry for C missing from the table
gradeToScoreWithoutC(grade) ==
    IF grade = "A" THEN Lit0_95
    ELSE IF grade = "B" THEN Lit0_75
    ELSE IF grade = "REJECT" THEN Lit0_25
    ELSE OrElse(InheritedEntry(grade), Lit0_5)

\* scores[grade] || 0.5; the four scores are truthy
gradeToScore(grade) ==
    IF grade = "A" THEN Lit0_95
    ELSE IF grade = "B" THEN Lit0_75
    ELSE IF grade = "C" THEN Lit0_55
    ELSE IF grade = "REJECT" THEN Lit0_25
    ELSE OrElse(InheritedEntry(grade), Lit0_5)

\* issues.map(issue => ({type, message, suggestion}))
PhotoIssues(issues) ==
    [i \in 1..Len(issues) |->
        [type       |-> issues[i].type,
         message    |-> issues[i].message,
         suggestion |-> issues[i].suggestion]]

\* a plausible slip: validity taken from the grade alone
IsValidOfGradeOnly(prediction) == prediction.grade # "REJECT"

IsValidOf(prediction) ==
    prediction.grade # "REJECT" /\ Len(prediction.issues) = 0

ResultOf(prediction) ==
    [isValid      |-> IsValidOf(prediction),
     qualityScore |-> gradeToScore(prediction.grade),
     grade        |-> prediction.grade,
     confidence   |-> prediction.confidence,
     issues       |-> PhotoIssues(prediction.issues)]

\* what goes wrong around the call, if anything: extractStats or predict of
\* the injected model rejects with an Error carrying a message (at, error),
\* and the transport's callback raises an Error when invoked (callback)
NoFault == [at |-> "none", error |-> Null, callback |-> Null]

Rejects(fault, step) == fault.at = step

\* the callback raises when it is invoked for the n-th time during the call
CallbackRaises(fault, n) ==
    fault.callback # Null /\ (fault.callback.on = "every" \/ n = 1)

\* duration is Date.now() - startTime, a measured time
InfoCompleted(request, result, duration) ==
    [level      |-> "info",
     msg        |-> "Photo validation completed",
     photoUrl   |-> request.photoUrl,
     isValid    |-> result.isValid,
     qualityScore |-> result.qualityScore,
     grade      |-> result.grade,
     issueCount |-> Len(result.issues),
     durationMs |-> duration]

ErrorFailed(request, error) ==
    [level    |-> "error",
     msg      |-> "Photo validation failed",
     error    |-> error,
     photoUrl |-> request.photoUrl]

\* return result
Returned(result) == [settled |-> "fulfilled", value |-> result, reason |-> Null]

\* throw error
Rethrown(error) == [settled |-> "rejected", value |-> Null, reason |-> error]

validateResolution(width, height) == width >= 1024 /\ height >= 768

(***************************************************************************)
(* PhotoValidationService.getSuggestion.  A text is the string of its      *)
(* UTF-16 code units, each code unit outside ASCII written \uXXXX.         *)
(***************************************************************************)
TableTypes == {"TOO_DARK", "TOO_BRIGHT", "BLURRY", "NO_PRODUCE", "LOW_RESOLUTION"}

Languages == {"en", "kn", "hi", "ta", "te"}

EnglishText(issueType) ==
    CASE issueType = "TOO_DARK"        -> "Move to brighter lighting or use flash"
      [] issueType = "TOO_BRIGHT"      -> "Move away from direct sunlight"
      [] issueType = "BLURRY"          -> "Hold camera steady and tap to focus"
      [] issueType = "NO_PRODUCE"      -> "Ensure produce fills most of the frame"
      [] issueType = "LOW_RESOLUTION"  -> "Move closer or use higher camera resolution"

KannadaText(issueType) ==
    CASE issueType = "TOO_DARK" ->
            "\\u0cb9\\u0cc6\\u0c9a\\u0ccd\\u0c9a\\u0cc1 \\u0cac\\u0cc6\\u0cb3\\u0c95\\u0cbf\\u0c97\\u0cc6 \\u0cb9\\u0ccb\\u0c97\\u0cbf \\u0c85\\u0ca5\\u0cb5\\u0cbe \\u0cab\\u0ccd\\u0cb2\\u0cbe\\u0cb6\\u0ccd \\u0cac\\u0cb3\\u0cb8\\u0cbf"
      [] issueType = "TOO_BRIGHT" ->
            "\\u0ca8\\u0cc7\\u0cb0 \\u0cb8\\u0cc2\\u0cb0\\u0ccd\\u0caf\\u0ca8 \\u0cac\\u0cc6\\u0cb3\\u0c95\\u0cbf\\u0ca8\\u0cbf\\u0c82\\u0ca6 \\u0ca6\\u0cc2\\u0cb0 \\u0cb9\\u0ccb\\u0c97\\u0cbf"
      [] issueType = "BLURRY" ->
            "\\u0c95\\u0ccd\\u0caf\\u0cbe\\u0cae\\u0cc6\\u0cb0\\u0cbe\\u0cb5\\u0ca8\\u0ccd\\u0ca8\\u0cc1 \\u0cb8\\u0ccd\\u0ca5\\u0cbf\\u0cb0\\u0cb5\\u0cbe\\u0c97\\u0cbf \\u0cb9\\u0cbf\\u0ca1\\u0cbf\\u0ca6\\u0cc1 \\u0cab\\u0ccb\\u0c95\\u0cb8\\u0ccd \\u0cae\\u0cbe\\u0ca1\\u0cb2\\u0cc1 \\u0c9f\\u0ccd\\u0caf\\u0cbe\\u0caa\\u0ccd \\u0cae\\u0cbe\\u0ca1\\u0cbf"
      [] issueType = "NO_PRODUCE" ->
            "\\u0c89\\u0ca4\\u0ccd\\u0caa\\u0ca8\\u0ccd\\u0ca8\\u0cb5\\u0cc1 \\u0cab\\u0ccd\\u0cb0\\u0cc7\\u0cae\\u0ccd\\u200c\\u0ca8 \\u0cb9\\u0cc6\\u0c9a\\u0ccd\\u0c9a\\u0cbf\\u0ca8 \\u0cad\\u0cbe\\u0c97\\u0cb5\\u0ca8\\u0ccd\\u0ca8\\u0cc1 \\u0ca4\\u0cc1\\u0c82\\u0cac\\u0cbf\\u0cb0\\u0cc1\\u0cb5\\u0cc1\\u0ca6\\u0ca8\\u0ccd\\u0ca8\\u0cc1 \\u0c96\\u0c9a\\u0cbf\\u0ca4\\u0caa\\u0ca1\\u0cbf\\u0cb8\\u0cbf"
      [] issueType = "LOW_RESOLUTION" ->
            "\\u0cb9\\u0ca4\\u0ccd\\u0ca4\\u0cbf\\u0cb0 \\u0cb9\\u0ccb\\u0c97\\u0cbf \\u0c85\\u0ca5\\u0cb5\\u0cbe \\u0cb9\\u0cc6\\u0c9a\\u0ccd\\u0c9a\\u0cbf\\u0ca8 \\u0c95\\u0ccd\\u0caf\\u0cbe\\u0cae\\u0cc6\\u0cb0\\u0cbe \\u0cb0\\u0cc6\\u0cb8\\u0cb2\\u0ccd\\u0caf\\u0cc2\\u0cb6\\u0ca8\\u0ccd \\u0cac\\u0cb3\\u0cb8\\u0cbf"

HindiText(issueType) ==
    CASE issueType = "TOO_DARK" ->
            "\\u0924\\u0947\\u091c \\u0930\\u094b\\u0936\\u0928\\u0940 \\u092e\\u0947\\u0902 \\u091c\\u093e\\u090f\\u0902 \\u092f\\u093e \\u092b\\u094d\\u0932\\u0948\\u0936 \\u0915\\u093e \\u0909\\u092a\\u092f\\u094b\\u0917 \\u0915\\u0930\\u0947\\u0902"
      [] issueType = "TOO_BRIGHT" ->
            "\\u0938\\u0940\\u0927\\u0940 \\u0927\\u0942\\u092a \\u0938\\u0947 \\u0926\\u0942\\u0930 \\u0939\\u091f\\u0947\\u0902"
      [] issueType = "BLURRY" ->
            "\\u0915\\u0948\\u092e\\u0930\\u093e \\u0938\\u094d\\u0925\\u093f\\u0930 \\u0930\\u0916\\u0947\\u0902 \\u0914\\u0930 \\u092b\\u094b\\u0915\\u0938 \\u0915\\u0930\\u0928\\u0947 \\u0915\\u0947 \\u0932\\u093f\\u090f \\u091f\\u0948\\u092a \\u0915\\u0930\\u0947\\u0902"
      [] issueType = "NO_PRODUCE" ->
            "\\u0938\\u0941\\u0928\\u093f\\u0936\\u094d\\u091a\\u093f\\u0924 \\u0915\\u0930\\u0947\\u0902 \\u0915\\u093f \\u0909\\u092a\\u091c \\u092b\\u094d\\u0930\\u0947\\u092e \\u0915\\u093e \\u0905\\u0927\\u093f\\u0915\\u093e\\u0902\\u0936 \\u0939\\u093f\\u0938\\u094d\\u0938\\u093e \\u092d\\u0930\\u0947"
      [] issueType = "LOW_RESOLUTION" ->
            "\\u0915\\u0930\\u0940\\u092c \\u091c\\u093e\\u090f\\u0902 \\u092f\\u093e \\u0909\\u091a\\u094d\\u091a \\u0915\\u0948\\u092e\\u0930\\u093e \\u0930\\u093f\\u091c\\u093c\\u0949\\u0932\\u094d\\u092f\\u0942\\u0936\\u0928 \\u0915\\u093e \\u0909\\u092a\\u092f\\u094b\\u0917 \\u0915\\u0930\\u0947\\u0902"

TamilText(issueType) ==
    CASE issueType = "TOO_DARK" ->
            "\\u0baa\\u0bbf\\u0bb0\\u0b95\\u0bbe\\u0b9a\\u0bae\\u0bbe\\u0ba9 \\u0bb5\\u0bc6\\u0bb3\\u0bbf\\u0b9a\\u0bcd\\u0b9a\\u0ba4\\u0bcd\\u0ba4\\u0bbf\\u0bb1\\u0bcd\\u0b95\\u0bc1 \\u0b9a\\u0bc6\\u0bb2\\u0bcd\\u0bb2\\u0bb5\\u0bc1\\u0bae\\u0bcd \\u0b85\\u0bb2\\u0bcd\\u0bb2\\u0ba4\\u0bc1 \\u0b83\\u0baa\\u0bbf\\u0bb3\\u0bbe\\u0bb7\\u0bcd \\u0baa\\u0baf\\u0ba9\\u0bcd\\u0baa\\u0b9f\\u0bc1\\u0ba4\\u0bcd\\u0ba4\\u0bb5\\u0bc1\\u0bae\\u0bcd"
      [] issueType = "TOO_BRIGHT" ->
            "\\u0ba8\\u0bc7\\u0bb0\\u0b9f\\u0bbf \\u0b9a\\u0bc2\\u0bb0\\u0bbf\\u0baf \\u0b92\\u0bb3\\u0bbf\\u0baf\\u0bbf\\u0bb2\\u0bbf\\u0bb0\\u0bc1\\u0ba8\\u0bcd\\u0ba4\\u0bc1 \\u0bb5\\u0bbf\\u0bb2\\u0b95\\u0bbf \\u0b9a\\u0bc6\\u0bb2\\u0bcd\\u0bb2\\u0bb5\\u0bc1\\u0bae\\u0bcd"
      [] issueType = "BLURRY" ->
            "\\u0b95\\u0bc7\\u0bae\\u0bb0\\u0bbe\\u0bb5\\u0bc8 \\u0ba8\\u0bbf\\u0bb2\\u0bc8\\u0baf\\u0bbe\\u0b95 \\u0baa\\u0bbf\\u0b9f\\u0bbf\\u0ba4\\u0bcd\\u0ba4\\u0bc1 \\u0b83\\u0baa\\u0bcb\\u0b95\\u0bb8\\u0bcd \\u0b9a\\u0bc6\\u0baf\\u0bcd\\u0baf \\u0b9f\\u0bc7\\u0baa\\u0bcd \\u0b9a\\u0bc6\\u0baf\\u0bcd\\u0baf\\u0bb5\\u0bc1\\u0bae\\u0bcd"
      [] issueType = "NO_PRODUCE" ->
            "\\u0b89\\u0bb1\\u0bcd\\u0baa\\u0ba4\\u0bcd\\u0ba4\\u0bbf \\u0baa\\u0bc6\\u0bb0\\u0bc1\\u0bae\\u0bcd\\u0baa\\u0bbe\\u0bb2\\u0bbe\\u0ba9 \\u0baa\\u0bbf\\u0bb0\\u0bc7\\u0bae\\u0bc8 \\u0ba8\\u0bbf\\u0bb0\\u0baa\\u0bcd\\u0baa\\u0bc1\\u0bb5\\u0ba4\\u0bc8 \\u0b89\\u0bb1\\u0bc1\\u0ba4\\u0bbf\\u0b9a\\u0bc6\\u0baf\\u0bcd\\u0baf\\u0bb5\\u0bc1\\u0bae\\u0bcd"
      [] issueType = "LOW_RESOLUTION" ->
            "\\u0b85\\u0bb0\\u0bc1\\u0b95\\u0bbf\\u0bb2\\u0bcd \\u0b9a\\u0bc6\\u0bb2\\u0bcd\\u0bb2\\u0bb5\\u0bc1\\u0bae\\u0bcd \\u0b85\\u0bb2\\u0bcd\\u0bb2\\u0ba4\\u0bc1 \\u0b89\\u0baf\\u0bb0\\u0bcd \\u0b95\\u0bc7\\u0bae\\u0bb0\\u0bbe \\u0ba4\\u0bc6\\u0bb3\\u0bbf\\u0bb5\\u0bc1\\u0ba4\\u0bcd\\u0ba4\\u0bbf\\u0bb1\\u0ba9\\u0bc8\\u0baa\\u0bcd \\u0baa\\u0baf\\u0ba9\\u0bcd\\u0baa\\u0b9f\\u0bc1\\u0ba4\\u0bcd\\u0ba4\\u0bb5\\u0bc1\\u0bae\\u0bcd"

TeluguText(issueType) ==
    CASE issueType = "TOO_DARK" ->
            "\\u0c2a\\u0c4d\\u0c30\\u0c15\\u0c3e\\u0c36\\u0c35\\u0c02\\u0c24\\u0c2e\\u0c48\\u0c28 \\u0c35\\u0c46\\u0c32\\u0c41\\u0c24\\u0c41\\u0c30\\u0c41\\u0c32\\u0c4b \\u0c35\\u0c46\\u0c33\\u0c4d\\u0c33\\u0c02\\u0c21\\u0c3f \\u0c32\\u0c47\\u0c26\\u0c3e \\u0c2b\\u0c4d\\u0c32\\u0c3e\\u0c37\\u0c4d \\u0c09\\u0c2a\\u0c2f\\u0c4b\\u0c17\\u0c3f\\u0c02\\u0c1a\\u0c02\\u0c21\\u0c3f"
      [] issueType = "TOO_BRIGHT" ->
            "\\u0c2a\\u0c4d\\u0c30\\u0c24\\u0c4d\\u0c2f\\u0c15\\u0c4d\\u0c37 \\u0c38\\u0c42\\u0c30\\u0c4d\\u0c2f\\u0c15\\u0c3e\\u0c02\\u0c24\\u0c3f \\u0c28\\u0c41\\u0c02\\u0c21\\u0c3f \\u0c26\\u0c42\\u0c30\\u0c02\\u0c17\\u0c3e \\u0c35\\u0c46\\u0c33\\u0c4d\\u0c33\\u0c02\\u0c21\\u0c3f"
      [] issueType = "BLURRY" ->
            "\\u0c15\\u0c46\\u0c2e\\u0c46\\u0c30\\u0c3e\\u0c28\\u0c41 \\u0c38\\u0c4d\\u0c25\\u0c3f\\u0c30\\u0c02\\u0c17\\u0c3e \\u0c2a\\u0c1f\\u0c4d\\u0c1f\\u0c41\\u0c15\\u0c41\\u0c28\\u0c3f \\u0c2b\\u0c4b\\u0c15\\u0c38\\u0c4d \\u0c1a\\u0c47\\u0c2f\\u0c21\\u0c3e\\u0c28\\u0c3f\\u0c15\\u0c3f \\u0c1f\\u0c4d\\u0c2f\\u0c3e\\u0c2a\\u0c4d \\u0c1a\\u0c47\\u0c2f\\u0c02\\u0c21\\u0c3f"
      [] issueType = "NO_PRODUCE" ->
            "\\u0c09\\u0c24\\u0c4d\\u0c2a\\u0c24\\u0c4d\\u0c24\\u0c3f \\u0c2b\\u0c4d\\u0c30\\u0c47\\u0c2e\\u0c4d\\u200c\\u0c32\\u0c4b \\u0c0e\\u0c15\\u0c4d\\u0c15\\u0c41\\u0c35 \\u0c2d\\u0c3e\\u0c17\\u0c02 \\u0c28\\u0c3f\\u0c02\\u0c2a\\u0c41\\u0c24\\u0c41\\u0c02\\u0c26\\u0c28\\u0c3f \\u0c28\\u0c3f\\u0c30\\u0c4d\\u0c27\\u0c3e\\u0c30\\u0c3f\\u0c02\\u0c1a\\u0c41\\u0c15\\u0c4b\\u0c02\\u0c21\\u0c3f"
      [] issueType = "LOW_RESOLUTION" ->
            "\\u0c26\\u0c17\\u0c4d\\u0c17\\u0c30\\u0c17\\u0c3e \\u0c35\\u0c46\\u0c33\\u0c4d\\u0c33\\u0c02\\u0c21\\u0c3f \\u0c32\\u0c47\\u0c26\\u0c3e \\u0c05\\u0c27\\u0c3f\\u0c15 \\u0c15\\u0c46\\u0c2e\\u0c46\\u0c30\\u0c3e \\u0c30\\u0c3f\\u0c1c\\u0c32\\u0c4d\\u0c2f\\u0c42\\u0c37\\u0c28\\u0c4d \\u0c09\\u0c2a\\u0c2f\\u0c4b\\u0c17\\u0c3f\\u0c02\\u0c1a\\u0c02\\u0c21\\u0c3f"

\* suggestions[issueType][language] for an entry of the table
TableText(issueType, language) ==
    CASE language = "en" -> EnglishText(issueType)
      [] language = "kn" -> KannadaText(issueType)
      [] language = "hi" -> HindiText(issueType)
      [] language = "ta" -> TamilText(issueType)
      [] language = "te" -> TeluguText(issueType)

\* the methods of the Object constructor itself, with their parameter counts
ObjectStaticMethods ==
    [assign |-> 2, getOwnPropertyDescriptor |-> 2,
     getOwnPropertyDescriptors |-> 1, getOwnPropertyNames |-> 1,
     getOwnPropertySymbols |-> 1, hasOwn |-> 2, is |-> 2,
     preventExtensions |-> 1, seal |-> 1, create |-> 2,
     defineProperties |-> 2, defineProperty |-> 3, freeze |-> 1,
     getPrototypeOf |-> 1, setPrototypeOf |-> 2, isExtensible |-> 1,
     isFrozen |-> 1, isSealed |-> 1, keys |-> 1, entries |-> 1,
     fromEntries |-> 1, values |-> 1]

\* the methods every function inherits from Function.prototype
FunctionPrototypeMethods ==
    [apply |-> 2, bind |-> 1, call |-> 1, toString |-> 0]

\* Function.prototype, itself a function
FunctionPrototype == Fn("", 0)

\* what the accessors caller and arguments of Function.prototype raise for
\* a built-in function
RestrictedPropertyError ==
    Threw("TypeError: 'caller', 'callee', and 'arguments' properties may not be accessed on strict mode functions or the arguments objects for calls to them")

\* a property of a function object: its own name and length, for a
\* constructor its prototype and its static methods, then
\* Function.prototype, then Object.prototype
FunctionGet(f, key) ==
    IF key = "name" THEN Str(f.function)
    ELSE IF key = "length" THEN Num(f.length)
    ELSE IF key = "prototype" /\ f = Fn("Object", 1) THEN Obj("Object.prototype")
    ELSE IF key = "prototype" /\ f = Fn("Function", 1) THEN FunctionPrototype
    ELSE IF key \in DOMAIN ObjectStaticMethods /\ f = Fn("Object", 1)
    THEN Fn(key, ObjectStaticMethods[key])
    ELSE IF key \in {"caller", "arguments"} THEN RestrictedPropertyError
    ELSE IF key = "constructor" THEN Fn("Function", 1)
    ELSE IF key \in DOMAIN FunctionPrototypeMethods
    THEN Fn(key, FunctionPrototypeMethods[key])
    ELSE IF key = "__proto__"
    THEN IF f = FunctionPrototype THEN Obj("Object.prototype")
         ELSE FunctionPrototype
    ELSE ObjectPrototypeGet(key)

\* suggestions[issueType]
SuggestionsGet(issueType) ==
    IF issueType \in TableTypes THEN [table |-> issueType]
    ELSE IF issueType = "__proto__" THEN Obj("Object.prototype")
    ELSE ObjectPrototypeGet(issueType)

\* v?.[language]
OptionalGet(v, language) ==
    IF IsUndefined(v) \/ IsNull(v) THEN Undefined
    ELSE IF "table" \in DOMAIN v
    THEN IF language \in Languages THEN Str(TableText(v.table, language))
         ELSE IF language = "__proto__" THEN Obj("Object.prototype")
         ELSE ObjectPrototypeGet(language)
    ELSE IF IsFn(v) THEN FunctionGet(v, language)
    ELSE ObjectPrototypeGet(language)

GenericSuggestion == Str("Please try again")

\* language = 'en' when the argument is undefined
DefaultLanguage(languageArg) ==
    IF IsUndefined(languageArg) THEN "en" ELSE languageArg.str

\* a || b || 'Please try again'; a raised error ends the expression
Lookup(issueType, language) ==
    IF IsThrow(OptionalGet(SuggestionsGet(issueType), language))
    THEN OptionalGet(SuggestionsGet(issueType), language)
    ELSE OrElse(OrElse(OptionalGet(SuggestionsGet(issueType), language),
                       OptionalGet(SuggestionsGet(issueType), "en")),
                GenericSuggestion)

getSuggestion(issueType, languageArg) ==
    Lookup(issueType, DefaultLanguage(languageArg))

(***************************************************************************)
(* photoValidationGrpcHandlers                                             *)
(***************************************************************************)
\* a plausible slip: the two defaults swapped
ServiceRequestSwapped(req) ==
    [photoUrl    |-> req.photoUrl,
     width       |-> OrElse(req.width, Num(768)).num,
     height      |-> OrElse(req.height, Num(1024)).num,
     imageBuffer |-> Undefined]

\* the request ValidatePhotoQuality hands to validatePhoto: no imageBuffer
ServiceRequest(req) ==
    [photoUrl    |-> req.photoUrl,
     width       |-> OrElse(req.width, Num(1024)).num,
     height      |-> OrElse(req.height, Num(768)).num,
     imageBuffer |-> Undefined]

ResponseOf(result) ==
    [isValid      |-> result.isValid,
     qualityScore |-> result.qualityScore,
     grade        |-> result.grade,
     confidence   |-> result.confidence,
     issues       |-> [i \in 1..Len(result.issues) |->
                         [type       |-> result.issues[i].type,
                          message    |-> result.issues[i].message,
                          suggestion |-> result.issues[i].suggestion]]]

\* { code: status.INTERNAL, details: error.message || 'Validation failed' }
InternalError(error) ==
    [code    |-> "INTERNAL",
     details |-> OrElse(Str(error.message), Str("Validation failed")).str]

HandlerInfo(req) ==
    [level |-> "info", msg |-> "Validating photo quality", photoUrl |-> req.photoUrl]

HandlerError(error) ==
    [level |-> "error", msg |-> "Photo validation failed", error |-> error]

(***************************************************************************)
(* Inputs                                                                  *)
(***************************************************************************)
\* out-of-range statistics go up to 10^MaxExcessPow beyond the valid range
MaxExcessPow == 3

Excess == {10^k : k \in 1..MaxExcessPow}

BrightnessInputs ==
    {0, 16, 39, 40, 59, 60, 140, 180, 181, 220, 221, 255}
        \cup {-e : e \in Excess} \cup {MAX_BYTE + e : e \in Excess}

SharpnessInputs ==
    {0, 50, 99, 100, 180} \cup {-e : e \in Excess}

DimensionInputs == {<<500, 500>>, <<1023, 768>>, <<1024, 767>>, <<1024, 768>>, <<4000, 3000>>}

StatsInputs ==
    {[width            |-> d[1],
      height           |-> d[2],
      brightness       |-> FromInt(b),
      contrast         |-> FromInt(50),
      sharpness        |-> FromInt(sh),
      hasProduceColors |-> p] :
        d \in DimensionInputs, b \in BrightnessInputs, sh \in SharpnessInputs,
        p \in BOOLEAN}

Run(byte, count) == [byte |-> byte, count |-> count]

BufferInputs ==
    {b \in {<< >>,
            <<Run(200, 50)>>,
            <<Run(7, 99)>>,
            <<Run(10, 100)>>,
            <<Run(0, 500), Run(32, 500)>>,
            <<Run(97, 160), Run(0, 810)>>,
            <<Run(100, 500), Run(200, 500), Run(0, 11000)>>,
            <<Run(0, 500), Run(78, 500), Run(0, 11000)>>,
            <<Run(250, 20000)>>} : ExactlyAnalysed(b)}

ImageBufferInputs == {Undefined} \cup {[buffer |-> b] : b \in BufferInputs}

ErrorMessages == {"", "model unavailable"}

FaultInputs ==
    {NoFault} \cup
    {[at |-> at, error |-> [message |-> m], callback |-> Null] :
        at \in {"extractStats", "predict"}, m \in ErrorMessages}

\* the callback raises the first time it is invoked, or every time
CallbackFaultInputs ==
    {[error |-> [message |-> m], on |-> on] :
        m \in ErrorMessages, on \in {"first", "every"}}

\* elapsed milliseconds between the two readings of the clock
MaxDurationMs == 1

DurationInputs == 0..MaxDurationMs

PhotoUrls == {"https://cdn.example/p1.jpg"}

ServiceRequestInputs ==
    {[photoUrl |-> u, width |-> d[1], height |-> d[2], imageBuffer |-> buf] :
        u \in PhotoUrls, d \in DimensionInputs, buf \in ImageBufferInputs}

\* width and height as the transport delivers them: absent, or a number
RpcDimensionInputs == {Undefined, Num(0), Num(500), Num(767), Num(768), Num(1024), Num(4000)}

RpcRequestInputs ==
    {[photoUrl |-> u, width |-> w, height |-> h] :
        u \in PhotoUrls, w \in RpcDimensionInputs, h \in RpcDimensionInputs}

IssueTypeInputs ==
    QualityIssueType \cup {"NOT_A_TYPE", "", "constructor", "toString", "__proto__",
                           "__lookupGetter__"}

LanguageInputs ==
    Languages \cup {"xx", "", "constructor", "toString", "name", "length",
                    "__defineGetter__", "keys", "prototype", "caller"}

(***************************************************************************)
(* State.  One call is served at a time: calls share no mutable state, so  *)
(* concurrent calls behave as calls served one after the other.            *)
(***************************************************************************)
VARIABLES
    pc,          \* where the call stands: "idle", a step of validatePhoto
                 \* ("getImageStats", "predict", "convert", "catch"),
                 \* "settled" (its promise is), "done"
    entry,       \* which entry point was called, or "none"
    rpcRequest,  \* call.request of the RPC being served, or Null
    request,     \* the PhotoValidationRequest given to validatePhoto, or Null
    fault,       \* what the injected model does wrong during the call
    stats,       \* the statistics given to predict, or Null
    prediction,  \* what predict returned, or Null
    score,       \* predict's local score once clamped, or Null
    thrown,      \* the error caught by validatePhoto, or Null
    promise,     \* the promise validatePhoto returned: settled, value, reason
    logs,        \* the records given to the loggers during the call
    callbacks,   \* the invocations of the RPC callback: [err, response]
    lookup,      \* [issueType, language] of a suggestion lookup, or Null
    suggestion,  \* what the lookup returned or raised, or Null
    escaped      \* the error no handler of the call took (raised out of the
                 \* RPC handler or left as a rejected promise), or Null

vars ==
    <<pc, entry, rpcRequest, request, fault, stats, prediction, score, thrown,
      promise, logs, callbacks, lookup, suggestion, escaped>>

NoPromise == [settled |-> "none", value |-> Null, reason |-> Null]

Init ==
    /\ pc = "idle"
    /\ entry = "none"
    /\ rpcRequest = Null
    /\ request = Null
    /\ fault = NoFault
    /\ stats = Null
    /\ prediction = Null
    /\ score = Null
    /\ thrown = Null
    /\ promise = NoPromise
    /\ logs = << >>
    /\ callbacks = << >>
    /\ lookup = Null
    /\ suggestion = Null
    /\ escaped = Null

\* ValidatePhotoQuality up to its call of validatePhoto
ValidatePhotoQuality ==
    /\ pc = "idle"
    /\ \E req \in RpcRequestInputs, flt \in FaultInputs,
          cb \in {Null} \cup CallbackFaultInputs :
          /\ rpcRequest' = req
          /\ request' = ServiceRequest(req)
          /\ fault' = [flt EXCEPT !.callback = cb]
          /\ logs' = <<HandlerInfo(req)>>
    /\ entry' = "rpc"
    /\ pc' = "getImageStats"
    /\ UNCHANGED <<stats, prediction, score, thrown, promise, callbacks, lookup,
                   suggestion, escaped>>

\* photoValidationService.validatePhoto called by any other front end
ValidatePhotoCall ==
    /\ pc = "idle"
    /\ \E req \in ServiceRequestInputs, flt \in FaultInputs :
          /\ request' = req
          /\ fault' = flt
    /\ entry' = "service"
    /\ pc' = "getImageStats"
    /\ UNCHANGED <<rpcRequest, stats, prediction, score, thrown, promise, logs,
                   callbacks, lookup, suggestion, escaped>>

\* const stats = await this.getImageStats(request)
GetImageStats ==
    /\ pc = "getImageStats"
    /\ IF HasBuffer(request) /\ Rejects(fault, "extractStats")
       THEN /\ thrown' = fault.error
            /\ pc' = "catch"
            /\ UNCHANGED stats
       ELSE /\ stats' = getImageStats(request)
            /\ pc' = "predict"
            /\ UNCHANGED thrown
    /\ UNCHANGED <<entry, rpcRequest, request, fault, prediction, score, promise,
                   logs, callbacks, lookup, suggestion, escaped>>

\* const prediction = await this.model.predict(stats)
Predict ==
    /\ pc = "predict"
    /\ IF Rejects(fault, "predict")
       THEN /\ thrown' = fault.error
            /\ pc' = "catch"
            /\ UNCHANGED <<prediction, score>>
       ELSE /\ LET checked == RunChecks(stats)
               IN  /\ prediction' = PredictionOf(stats, checked)
                   /\ score' = ClampScore(checked.score)
            /\ pc' = "convert"
            /\ UNCHANGED thrown
    /\ UNCHANGED <<entry, rpcRequest, request, fault, stats, promise, logs,
                   callbacks, lookup, suggestion, escaped>>

\* the rest of the try block: the result is built, logged and returned
Convert ==
    /\ pc = "convert"
    /\ promise' = Returned(ResultOf(prediction))
    /\ \E duration \in DurationInputs :
          logs' = Append(logs, InfoCompleted(request, ResultOf(prediction), duration))
    /\ pc' = "settled"
    /\ UNCHANGED <<entry, rpcRequest, request, fault, stats, prediction, score,
                   thrown, callbacks, lookup, suggestion, escaped>>

\* catch (error) { logger.error(...); throw error }
Catch ==
    /\ pc = "catch"
    /\ logs' = Append(logs, ErrorFailed(request, thrown))
    /\ promise' = Rethrown(thrown)
    /\ pc' = "settled"
    /\ UNCHANGED <<entry, rpcRequest, request, fault, stats, prediction, score,
                   thrown, callbacks, lookup, suggestion, escaped>>

\* .then((result) => callback(null, {...})): the callback is invoked with
\* the response; when it raises, the promise .then returned is rejected
ValidatePhotoQualityThen ==
    /\ pc = "settled"
    /\ entry = "rpc"
    /\ promise.settled = "fulfilled"
    /\ callbacks' = Append(callbacks, [err |-> Null, response |-> ResponseOf(promise.value)])
    /\ pc' = IF CallbackRaises(fault, Len(callbacks'))
             THEN "thenRejected" ELSE "done"
    /\ UNCHANGED <<entry, rpcRequest, request, fault, stats, prediction, score,
                   thrown, promise, logs, lookup, suggestion, escaped>>

\* the error the promise .catch is chained on was rejected with: the
\* rejection of validatePhoto, passed through .then, or what the .then
\* handler raised
ChainRejection ==
    IF pc = "thenRejected" THEN fault.callback.error ELSE promise.reason

\* .catch((error) => { logger.error(...); callback({...}, null) }); a
\* callback that raises here leaves a rejected promise nobody handles
ValidatePhotoQualityCatch ==
    /\ entry = "rpc"
    /\ \/ pc = "settled" /\ promise.settled = "rejected"
       \/ pc = "thenRejected"
    /\ logs' = Append(logs, HandlerError(ChainRejection))
    /\ callbacks' = Append(callbacks, [err |-> InternalError(ChainRejection), response |-> Null])
    /\ escaped' = IF CallbackRaises(fault, Len(callbacks'))
                  THEN fault.callback.error ELSE escaped
    /\ pc' = "done"
    /\ UNCHANGED <<entry, rpcRequest, request, fault, stats, prediction, score,
                   thrown, promise, lookup, suggestion>>

\* mockQualityModel.predict called on its own
PredictCall ==
    /\ pc = "idle"
    /\ \E st \in StatsInputs :
          /\ stats' = st
          /\ LET checked == RunChecks(st)
             IN  /\ prediction' = PredictionOf(st, checked)
                 /\ score' = ClampScore(checked.score)
    /\ entry' = "predict"
    /\ pc' = "done"
    /\ UNCHANGED <<rpcRequest, request, fault, thrown, promise, logs, callbacks,
                   lookup, suggestion, escaped>>

\* GetLocalizedSuggestion: req.language || 'en'; what getSuggestion or the
\* callback raises leaves the handler
GetLocalizedSuggestion ==
    /\ pc = "idle"
    /\ \E issueType \in IssueTypeInputs, language \in LanguageInputs,
          cb \in {Null} \cup CallbackFaultInputs :
          /\ rpcRequest' = [issueType |-> issueType, language |-> language]
          /\ fault' = [NoFault EXCEPT !.callback = cb]
          /\ lookup' = [issueType |-> issueType,
                        language  |-> OrElse(Str(language), Str("en"))]
          /\ suggestion' = getSuggestion(issueType, OrElse(Str(language), Str("en")))
    /\ IF IsThrow(suggestion')
       THEN /\ callbacks' = << >>
            /\ escaped' = suggestion'
       ELSE /\ callbacks' = <<[err |-> Null, response |-> [suggestion |-> suggestion']]>>
            /\ escaped' = IF CallbackRaises(fault', Len(callbacks'))
                          THEN fault'.callback.error ELSE Null
    /\ entry' = "suggestionRpc"
    /\ pc' = "done"
    /\ UNCHANGED <<request, stats, prediction, score, thrown, promise, logs>>

\* photoValidationService.getSuggestion called directly; the language
\* argument may be left out
GetSuggestionCall ==
    /\ pc = "idle"
    /\ \E issueType \in IssueTypeInputs,
          languageArg \in {Undefined} \cup {Str(l) : l \in LanguageInputs} :
          /\ lookup' = [issueType |-> issueType, language |-> languageArg]
          /\ suggestion' = getSuggestion(issueType, languageArg)
    /\ entry' = "suggestion"
    /\ pc' = "done"
    /\ UNCHANGED <<rpcRequest, request, fault, stats, prediction, score, thrown,
                   promise, logs, callbacks, escaped>>

\* the call is over; nothing of it is kept (request-scoped values only)
Return ==
    /\ \/ pc = "done"
       \/ pc = "settled" /\ entry = "service"
    /\ pc' = "idle"
    /\ entry' = "none"
    /\ rpcRequest' = Null
    /\ request' = Null
    /\ fault' = NoFault
    /\ stats' = Null
    /\ prediction' = Null
    /\ score' = Null
    /\ thrown' = Null
    /\ promise' = NoPromise
    /\ logs' = << >>
    /\ callbacks' = << >>
    /\ lookup' = Null
    /\ suggestion' = Null
    /\ escaped' = Null

Next ==
    \/ ValidatePhotoQuality
    \/ ValidatePhotoCall
    \/ GetImageStats
    \/ Predict
    \/ Convert
    \/ Catch
    \/ ValidatePhotoQualityThen
    \/ ValidatePhotoQualityCatch
    \/ PredictCall
    \/ GetLocalizedSuggestion
    \/ GetSuggestionCall
    \/ Return

Spec == Init /\ [][Next]_vars

(***************************************************************************)
(* Properties                                                              *)
(***************************************************************************)
IssueTypes(issues) == [i \in 1..Len(issues) |-> issues[i].type]

MeetsResolution(w, h) == w >= 1024 /\ h >= 768

\* C1: every result validatePhoto returns has isValid true exactly when
\* its grade is not REJECT and its issue list is empty.
C1_IsValidIffAcceptedAndNoIssues ==
    promise.settled = "fulfilled" =>
        (promise.value.isValid <=>
            (promise.value.grade # "REJECT" /\ promise.value.issues = << >>))

\* C1 witness: a result graded A that is invalid because of its one
\* TOO_DARK issue (brightness 39, everything else perfect).
C1_Witness ==
    /\ promise.settled = "fulfilled"
    /\ stats.brightness = FromInt(39)
    /\ promise.value.grade = "A"
    /\ IssueTypes(promise.value.issues) = <<"TOO_DARK">>
    /\ ~promise.value.isValid

\* C2: the qualityScore of every result is the table entry of its grade,
\* A 0.95, B 0.75, C 0.55, REJECT 0.25, and never the 0.5 fallback.
C2_QualityScoreFromGradeTable ==
    promise.settled = "fulfilled" =>
        \/ promise.value.grade = "A" /\ promise.value.qualityScore = Dec(95, 100)
        \/ promise.value.grade = "B" /\ promise.value.qualityScore = Dec(75, 100)
        \/ promise.value.grade = "C" /\ promise.value.qualityScore = Dec(55, 100)
        \/ promise.value.grade = "REJECT" /\ promise.value.qualityScore = Dec(25, 100)

\* C2 witness: a result graded C, scored 0.55, whose clamped raw score is
\* not 0.55.
C2_Witness ==
    /\ promise.settled = "fulfilled"
    /\ promise.value.grade = "C"
    /\ promise.value.qualityScore = Dec(55, 100)
    /\ score # Dec(55, 100)

\* C3: the confidence predict returns lies in [0.3, 0.99], whatever the
\* statistics and however large the severities.
C3_ConfidenceWithinClamp ==
    prediction # Null =>
        /\ FGe(prediction.confidence, Dec(3, 10))
        /\ FLe(prediction.confidence, Dec(99, 100))

\* C3 witness: a prediction with a severity above 1 whose confidence was
\* clamped up to 0.3.
C3_Witness ==
    /\ prediction # Null
    /\ \E i \in 1..Len(prediction.issues) :
          FGt(prediction.issues[i].severity, FromInt(1))
    /\ prediction.confidence = Dec(3, 10)

InAcceptableRanges(st) ==
    /\ MeetsResolution(st.width, st.height)
    /\ FGe(st.brightness, FromInt(40))
    /\ FLe(st.brightness, FromInt(220))
    /\ FGe(st.sharpness, FromInt(100))
    /\ st.hasProduceColors

InBorderlineBand(st) ==
    FLt(st.brightness, FromInt(60)) \/ FGt(st.brightness, FromInt(180))

\* C4: statistics with width >= 1024, height >= 768, 40 <= brightness <=
\* 220, sharpness >= 100 and produce colours give no issue, raw score 1.0
\* and grade A; a brightness in a borderline band lowers the confidence
\* below 0.9 and changes nothing else.
C4_AcceptableStatsGiveGradeA ==
    (prediction # Null /\ InAcceptableRanges(stats)) =>
        /\ prediction.issues = << >>
        /\ prediction.grade = "A"
        /\ score = FromInt(1)
        /\ IF InBorderlineBand(stats)
           THEN FLt(prediction.confidence, Dec(9, 10))
           ELSE prediction.confidence = Dec(9, 10)

\* C4 witness: brightness 59, in the lower borderline band, and sharpness
\* exactly at the threshold: grade A, no issue, confidence below 0.9.
C4_Witness ==
    /\ prediction # Null
    /\ InAcceptableRanges(stats)
    /\ stats.brightness = FromInt(59)
    /\ stats.sharpness = FromInt(100)
    /\ prediction.grade = "A"
    /\ FLt(prediction.confidence, Dec(9, 10))

NeutralStats(req) ==
    [width            |-> req.width,
     height           |-> req.height,
     brightness       |-> FromInt(140),
     contrast         |-> FromInt(50),
     sharpness        |-> FromInt(180),
     hasProduceColors |-> TRUE]

\* C5: a request without imageBuffer (every ValidatePhotoQuality call is
\* one) is scored on the neutral statistics with the declared dimensions;
\* its result is [LOW_RESOLUTION], B, 0.75, invalid when width < 1024 or
\* height < 768, and no issue, A, 0.95, valid otherwise.
C5_NoBufferOutcome ==
    /\ entry = "rpc" => ~HasBuffer(request)
    /\ (request # Null /\ ~HasBuffer(request)) =>
          /\ stats # Null => stats = NeutralStats(request)
          /\ promise.settled = "fulfilled" =>
                IF request.width < 1024 \/ request.height < 768
                THEN /\ IssueTypes(promise.value.issues) = <<"LOW_RESOLUTION">>
                     /\ promise.value.grade = "B"
                     /\ promise.value.qualityScore = Dec(75, 100)
                     /\ ~promise.value.isValid
                ELSE /\ promise.value.issues = << >>
                     /\ promise.value.grade = "A"
                     /\ promise.value.qualityScore = Dec(95, 100)
                     /\ promise.value.isValid

\* C5 witness: the RPC answered for a 500x500 request: LOW_RESOLUTION
\* only, grade B, 0.75, invalid.
C5_Witness ==
    /\ entry = "rpc"
    /\ pc = "done"
    /\ request.width = 500
    /\ request.height = 500
    /\ callbacks[1].response # Null
    /\ callbacks[1].response.grade = "B"
    /\ IssueTypes(callbacks[1].response.issues) = <<"LOW_RESOLUTION">>
    /\ ~callbacks[1].response.isValid

ShortBuffer(req) ==
    HasBuffer(req) /\ BufferLength(req.imageBuffer.buffer) < 100

\* C6: an imageBuffer shorter than 100 bytes gives brightness 128,
\* contrast 50, sharpness 150 and no produce colours; with declared
\* dimensions of at least 1024x768 the only issue is NO_PRODUCE with
\* severity 0.8, the raw score is 0.6, the grade C and the result invalid.
C6_ShortBufferOutcome ==
    (request # Null /\ ShortBuffer(request)) =>
        /\ stats # Null =>
              /\ stats.brightness = FromInt(128)
              /\ stats.contrast = FromInt(50)
              /\ stats.sharpness = FromInt(150)
              /\ ~stats.hasProduceColors
        /\ (prediction # Null /\ MeetsResolution(request.width, request.height)) =>
              /\ IssueTypes(prediction.issues) = <<"NO_PRODUCE">>
              /\ prediction.issues[1].severity = Dec(8, 10)
              /\ score = Dec(6, 10)
              /\ prediction.grade = "C"
        /\ (promise.settled = "fulfilled"
              /\ MeetsResolution(request.width, request.height)) =>
              /\ promise.value.grade = "C"
              /\ ~promise.value.isValid

\* C6 witness: a 50-byte buffer declared 1024x768, validated: grade C,
\* invalid.
C6_Witness ==
    /\ request # Null
    /\ HasBuffer(request)
    /\ BufferLength(request.imageBuffer.buffer) = 50
    /\ request.width = 1024
    /\ request.height = 768
    /\ promise.settled = "fulfilled"
    /\ promise.value.grade = "C"
    /\ ~promise.value.isValid

\* the resolution order the specification gives for a suggestion
ClaimedSuggestion(issueType, language) ==
    IF issueType \in TableTypes /\ language \in Languages
    THEN Str(TableText(issueType, language))
    ELSE IF issueType \in TableTypes THEN Str(EnglishText(issueType))
    ELSE Str("Please try again")

\* C7: for every issue type and language string, getSuggestion returns a
\* string: the table entry of (issueType, language) if there is one, else
\* the entry of (issueType, "en"), else "Please try again".
C7_SuggestionResolvedInOrder ==
    lookup # Null =>
        /\ IsStr(suggestion)
        /\ suggestion = ClaimedSuggestion(lookup.issueType,
                                          DefaultLanguage(lookup.language))

ValidateEntry == entry \in {"rpc", "service"}

Over == pc \in {"settled", "done"}

FaultApplies ==
    \/ fault.at = "predict"
    \/ fault.at = "extractStats" /\ HasBuffer(request)

\* the orchestrator's part of C8: a failing extraction or scoring ends in
\* one error record and the same failure re-raised, with no result
OrchestratorReraises ==
    (ValidateEntry /\ Over /\ FaultApplies) =>
        /\ thrown = fault.error
        /\ promise = [settled |-> "rejected", value |-> Null, reason |-> fault.error]
        /\ Cardinality({i \in 1..Len(logs) :
                           logs[i] = ErrorFailed(request, fault.error)}) = 1
        /\ \A i \in 1..Len(logs) : logs[i].msg # "Photo validation completed"
        /\ prediction = Null

\* the transport's part of C8: the callback is invoked once per call, with
\* a full response or with an INTERNAL error carrying the failure's
\* message and a null response
TransportAnswersOnce ==
    entry = "rpc" =>
        /\ pc # "done" => callbacks = << >>
        /\ pc = "done" =>
              /\ Len(callbacks) = 1
              /\ promise.settled = "fulfilled" =>
                    /\ callbacks[1].err = Null
                    /\ callbacks[1].response = promise.value
              /\ promise.settled = "rejected" =>
                    /\ callbacks[1].response = Null
                    /\ callbacks[1].err.code = "INTERNAL"
                    /\ callbacks[1].err.details = promise.reason.message

\* C8: a failing extraction or scoring is logged once and re-raised
\* unchanged, and the RPC completes once: with a full result, or with
\* INTERNAL, the failure's message as detail text and a null response,
\* never with both.
C8_FailureDetailIsMessage ==
    OrchestratorReraises /\ TransportAnswersOnce

\* no result of a request that omitted both dimensions has LOW_RESOLUTION
OmittedDimensionsPass ==
    (entry = "rpc" /\ IsUndefined(rpcRequest.width) /\ IsUndefined(rpcRequest.height)
        /\ promise.settled = "fulfilled") =>
        \A i \in 1..Len(promise.value.issues) :
            promise.value.issues[i].type # "LOW_RESOLUTION"

\* extraction and scoring see the dimensions the wrapper passed
StatsUseWrapperDimensions ==
    (entry = "rpc" /\ stats # Null) =>
        stats.width = request.width /\ stats.height = request.height

\* C9 as stated: a missing width becomes 1024, a missing height 768, and
\* every declared value is passed through unchanged.
C9_OnlyMissingDimensionsDefaulted ==
    /\ entry = "rpc" =>
          /\ request.width = IF IsUndefined(rpcRequest.width) THEN 1024
                             ELSE rpcRequest.width.num
          /\ request.height = IF IsUndefined(rpcRequest.height) THEN 768
                              ELSE rpcRequest.height.num
    /\ StatsUseWrapperDimensions
    /\ OmittedDimensionsPass

\* C9 as amended: a missing or zero width becomes 1024, a missing or zero
\* height 768, and every declared non-zero value is passed through.
C9_MissingOrZeroDimensionsDefaulted ==
    /\ entry = "rpc" =>
          /\ request.width =
                IF IsUndefined(rpcRequest.width) \/ rpcRequest.width = Num(0)
                THEN 1024 ELSE rpcRequest.width.num
          /\ request.height =
                IF IsUndefined(rpcRequest.height) \/ rpcRequest.height = Num(0)
                THEN 768 ELSE rpcRequest.height.num
    /\ StatsUseWrapperDimensions
    /\ OmittedDimensionsPass

\* C9 witness: a request that omits the width and declares height 500 is
\* scored as 1024x500.
C9_Witness ==
    /\ entry = "rpc"
    /\ pc = "done"
    /\ IsUndefined(rpcRequest.width)
    /\ rpcRequest.height = Num(500)
    /\ stats.width = 1024
    /\ stats.height = 500

\* the place of an issue type in the order of the checks
CheckRank(type) ==
    CASE type = "LOW_RESOLUTION" -> 1
      [] type = "TOO_DARK"       -> 2
      [] type = "TOO_BRIGHT"     -> 2
      [] type = "BLURRY"         -> 3
      [] type = "NO_PRODUCE"     -> 4
      [] OTHER                   -> 0

\* C10: the issues of a prediction are a subsequence of [LOW_RESOLUTION,
\* TOO_DARK or TOO_BRIGHT, BLURRY, NO_PRODUCE] (ranks strictly increase, so
\* no type twice, never both brightness issues, never POOR_FRAMING), and
\* validatePhoto keeps them in that order.
C10_IssuesInCheckOrder ==
    prediction # Null =>
        /\ \A i \in 1..Len(prediction.issues) :
              CheckRank(prediction.issues[i].type) > 0
        /\ \A i \in 1..Len(prediction.issues), j \in 1..Len(prediction.issues) :
              i < j => CheckRank(prediction.issues[i].type)
                          < CheckRank(prediction.issues[j].type)
        /\ promise.settled = "fulfilled" =>
              IssueTypes(promise.value.issues) = IssueTypes(prediction.issues)

\* C10 witness: all four checks fire together, in order, in a validated
\* photo.
C10_Witness ==
    /\ promise.settled = "fulfilled"
    /\ IssueTypes(promise.value.issues)
          = <<"LOW_RESOLUTION", "TOO_DARK", "BLURRY", "NO_PRODUCE">>

\* a statistic that is a whole number, and that number
IsWhole(x) ==
    /\ Len(x.mag) <= FracLimbs + 1
    /\ \A i \in 1..Len(x.mag) : i <= FracLimbs => x.mag[i] = 0

IntOf(x) ==
    LET n == IF Len(x.mag) > FracLimbs THEN x.mag[FracLimbs + 1] ELSE 0
    IN  IF x.neg THEN -n ELSE n

\* 28000 is the least common denominator of 0.20, 0.25/40, 0.25/35,
\* 0.30/100 and 0.40, so 28000 times the raw score the specification
\* describes is a whole number for whole statistics.  28000 times: 1.0, minus 0.20 if low resolution, minus 0.25 x
\* (40 - brightness)/40 if too dark, minus 0.25 x (brightness - 220)/35 if
\* too bright, minus 0.30 x (100 - sharpness)/100 if blurry, minus 0.40 if
\* no produce
ScaledRawScore(st) ==
    LET b == IntOf(st.brightness)
        s == IntOf(st.sharpness)
    IN  28000
          - (IF st.width < 1024 \/ st.height < 768 THEN 5600 ELSE 0)
          - (IF b < 40 THEN 175 * (40 - b)
             ELSE IF b > 220 THEN 200 * (b - 220) ELSE 0)
          - (IF s < 100 THEN 84 * (100 - s) ELSE 0)
          - (IF st.hasProduceColors THEN 0 ELSE 11200)

ScaledClamped(v) == IF v < 0 THEN 0 ELSE IF v > 28000 THEN 28000 ELSE v

\* score >= 0.85 gives A, >= 0.65 gives B, >= 0.45 gives C, else REJECT
GradeOfScaled(v) ==
    IF v >= 23800 THEN "A"
    ELSE IF v >= 18200 THEN "B"
    ELSE IF v >= 12600 THEN "C"
    ELSE "REJECT"

GradeRank(grade) ==
    CASE grade = "A" -> 3
      [] grade = "B" -> 2
      [] grade = "C" -> 1
      [] grade = "REJECT" -> 0

\* scores around every threshold, to compare a prediction's score with
ScoreSamples ==
    {Dec(k, 100) : k \in {0, 44, 45, 46, 64, 65, 66, 84, 85, 86, 100}}

\* a strictly higher score never has a strictly worse grade
GradeMonotonic ==
    prediction # Null =>
        \A t \in ScoreSamples :
            /\ FGt(score, t) =>
                  GradeRank(prediction.grade) >= GradeRank(scoreToGrade(t))
            /\ FGt(t, score) =>
                  GradeRank(scoreToGrade(t)) >= GradeRank(prediction.grade)

\* C11: the grade of every prediction is the threshold mapping (>= 0.85 A,
\* >= 0.65 B, >= 0.45 C, else REJECT) of the raw score 1.0 - 0.20 [low
\* resolution] - 0.25 x severity [brightness] - 0.30 x severity [blurry]
\* - 0.40 [no produce], clamped to [0, 1]; and the mapping is monotonic.
C11_GradeIsThresholdOfRawScore ==
    /\ (prediction # Null /\ IsWhole(stats.brightness) /\ IsWhole(stats.sharpness)) =>
          prediction.grade = GradeOfScaled(ScaledClamped(ScaledRawScore(stats)))
    /\ GradeMonotonic

\* 0.1 x severity taken from the confidence for every issue of the list
RECURSIVE LessSeverities(_, _)
LessSeverities(issues, confidence) ==
    IF issues = << >> THEN confidence
    ELSE LessSeverities(Tail(issues),
                        FSub(confidence, FMul(Lit0_1, Head(issues).severity)))

\* the confidence the specification describes, in double arithmetic
ClaimedConfidence(st, issues) ==
    LET afterIssues == LessSeverities(issues, Lit0_9)
        afterBand   == IF FLt(st.brightness, FromInt(60))
                          \/ FGt(st.brightness, FromInt(180))
                       THEN FSub(afterIssues, Lit0_1)
                       ELSE afterIssues
    IN  IF FLt(afterBand, Lit0_3) THEN Lit0_3
        ELSE IF FGt(afterBand, Lit0_99) THEN Lit0_99
        ELSE afterBand

\* 14000 times the same confidence computed exactly from whole statistics
\* (14000 is the least common denominator of 0.9, 0.1 x 0.5, 0.1/40,
\* 0.1/35, 0.1/100, 0.1 x 0.8 and 0.1), clamped to [0.3, 0.99]
ScaledConfidence(st) ==
    LET b == IntOf(st.brightness)
        s == IntOf(st.sharpness)
        v == 12600
               - (IF st.width < 1024 \/ st.height < 768 THEN 700 ELSE 0)
               - (IF b < 40 THEN 35 * (40 - b)
                  ELSE IF b > 220 THEN 40 * (b - 220) ELSE 0)
               - (IF s < 100 THEN 14 * (100 - s) ELSE 0)
               - (IF st.hasProduceColors THEN 0 ELSE 1120)
               - (IF b < 60 \/ b > 180 THEN 1400 ELSE 0)
    IN  IF v < 4200 THEN 4200 ELSE IF v > 13860 THEN 13860 ELSE v

\* the double x is within LimbBase^-3 = 2^-45 of n / d (0 <= n, 0 < d < LimbBase)
NearRatio(x, n, d) ==
    LET a   == BMulSmall(x.mag, d)
        e   == BShl(BFromNat(n), FracLimbs)
        gap == IF BCmp(a, e) >= 0 THEN BSub(a, e) ELSE BSub(e, a)
    IN  ~x.neg /\ BCmp(gap, BShl(BFromNat(d), FracLimbs - 3)) <= 0

NearScaled(x, n) == NearRatio(x, n, 14000)

\* C12: the confidence of every prediction is 0.9 minus 0.1 x severity for
\* every issue of the list, minus 0.1 when brightness < 60 or > 180
\* (whether or not a brightness issue fired), clamped to [0.3, 0.99]; it
\* is exactly 0.9 for issue-free statistics with brightness in 60..180.
C12_ConfidenceFormula ==
    prediction # Null =>
        /\ prediction.confidence = ClaimedConfidence(stats, prediction.issues)
        /\ (IsWhole(stats.brightness) /\ IsWhole(stats.sharpness)) =>
              NearScaled(prediction.confidence, ScaledConfidence(stats))
        /\ (prediction.issues = << >>
              /\ FGe(stats.brightness, FromInt(60))
              /\ FLe(stats.brightness, FromInt(180))) =>
              prediction.confidence = Dec(9, 10)

\* C12 witness: brightness 59 raises no brightness issue, yet the flat 0.1
\* is taken on top of the LOW_RESOLUTION issue: 0.9 - 0.05 - 0.1.
C12_Witness ==
    /\ prediction # Null
    /\ stats.brightness = FromInt(59)
    /\ IssueTypes(prediction.issues) = <<"LOW_RESOLUTION">>
    /\ prediction.confidence
          = FSub(FSub(Dec(9, 10), FMul(Dec(1, 10), Dec(5, 10))), Dec(1, 10))
    /\ NearScaled(prediction.confidence, 10500)

\* statistics within the declared ranges: brightness in [0, 255] and
\* sharpness >= 0
InDeclaredRanges(st) ==
    /\ FGe(st.brightness, FromInt(0))
    /\ FLe(st.brightness, FromInt(255))
    /\ FGe(st.sharpness, FromInt(0))

\* the severity the specification gives an issue of the statistics st
SeverityAsSpecified(st, issue) ==
    CASE issue.type = "TOO_DARK" ->
            /\ issue.severity = FDivNat(FSub(FromInt(40), st.brightness), 40)
            /\ IsWhole(st.brightness) =>
                  NearRatio(issue.severity, 40 - IntOf(st.brightness), 40)
      [] issue.type = "TOO_BRIGHT" ->
            /\ issue.severity = FDivNat(FSub(st.brightness, FromInt(220)), 35)
            /\ IsWhole(st.brightness) =>
                  NearRatio(issue.severity, IntOf(st.brightness) - 220, 35)
      [] issue.type = "BLURRY" ->
            /\ issue.severity = FDivNat(FSub(FromInt(100), st.sharpness), 100)
            /\ IsWhole(st.sharpness) =>
                  NearRatio(issue.severity, 100 - IntOf(st.sharpness), 100)
      [] issue.type = "LOW_RESOLUTION" -> issue.severity = Lit0_5
      [] issue.type = "NO_PRODUCE" -> issue.severity = Lit0_8
      [] OTHER -> FALSE

\* C13: for statistics with brightness in [0, 255] and sharpness >= 0,
\* which the statistics extracted from any buffer are, every issue of the
\* prediction has the severity of its formula ((40 - brightness)/40,
\* (brightness - 220)/35, (100 - sharpness)/100, 0.5, 0.8), and that
\* severity lies in [0, 1].
C13_SeverityWithinUnitInterval ==
    /\ (stats # Null /\ request # Null /\ HasBuffer(request)) =>
          InDeclaredRanges(stats)
    /\ (prediction # Null /\ InDeclaredRanges(stats)) =>
          \A i \in 1..Len(prediction.issues) :
              /\ SeverityAsSpecified(stats, prediction.issues[i])
              /\ FGe(prediction.issues[i].severity, FromInt(0))
              /\ FLe(prediction.issues[i].severity, FromInt(1))

\* C13 witness: brightness 0 and sharpness 0, the ends of the declared
\* ranges, give TOO_DARK and BLURRY the severity 1 exactly.
C13_Witness ==
    /\ prediction # Null
    /\ stats.brightness = FromInt(0)
    /\ stats.sharpness = FromInt(0)
    /\ \E i \in 1..Len(prediction.issues) :
          /\ prediction.issues[i].type = "TOO_DARK"
          /\ prediction.issues[i].severity = FromInt(1)
    /\ \E i \in 1..Len(prediction.issues) :
          /\ prediction.issues[i].type = "BLURRY"
          /\ prediction.issues[i].severity = FromInt(1)

=============================================================================
